---- MODULE Spec2Model ----
(***************************************************************************)
(* Model of statistical_power.ipynb: the function stat_power(n, obs=data)  *)
(* and the two hand-written loops (the n=2 and the n=3 cell) that precede  *)
(* it.                                                                     *)
(*                                                                         *)
(* Numbers.  Every observation is a multiple of 1/4, so an observation x   *)
(* is held as the integer 4*x (Unit = 4) and the hypothesised mean 5 as    *)
(* 5*Unit.  Sums of such values are exact in binary floating point, so     *)
(* np.std(sample) is exactly 0.0 precisely when all values are equal.      *)
(* With S = sum(sample), Q = sum of squares and n = len(sample):           *)
(*    np.mean = S/n            np.std^2 = (n*Q - S*S) / n^2                *)
(*    t = (mean - 5) / (std / n**0.5)                                      *)
(*    t <= -c  (c > 0)   <=>   S < 5*n  /\  n*(5*n - S)^2 >= c^2*(n*Q-S*S) *)
(* which is free of the unit.  A critical value c is held as c^2 in        *)
(* ten-thousandths; on every sample of the model t^2 is further than 0.2   *)
(* away from c^2, so neither this rounding nor float rounding decides a    *)
(* comparison.  A power value ctr / len(combs) is held as <<ctr, len>>.    *)
(***************************************************************************)
EXTENDS Integers, Sequences, FiniteSets, TLC

VARIABLES pc, obs, n, combs, i, ctr, trace, ret, err, power

vars == <<pc, obs, n, combs, i, ctr, trace, ret, err, power>>

(* ---------------------------------------------------------------- bounds *)
MaxN == 3          \* longest population drawn besides the reference data

(* ------------------------------------------------------------- constants *)
Unit == 4
Mu0 == 5 * Unit
CritDen == 10000

\* data = pd.Series([5, 2, 2, 5, 2.5, 2, 2, 3, 2.5, 2.25])
data == <<5 * Unit, 2 * Unit, 2 * Unit, 5 * Unit, 10, 2 * Unit, 2 * Unit,
          3 * Unit, 10, 9>>

\* observations a drawn population is built from: 2, 2.25, 5 and 6
Values == {2 * Unit, 9, 5 * Unit, 6 * Unit}

None == <<>>

(* --------------------------------------------------------------- helpers *)
Range(s) == {s[k] : k \in 1..Len(s)}

RECURSIVE SumSeq(_)
SumSeq(s) == IF s = <<>> THEN 0 ELSE Head(s) + SumSeq(Tail(s))

Squares(s) == [k \in 1..Len(s) |-> s[k] * s[k]]

\* n^2 * len^2 * np.std(sample)^2 up to a positive factor: len*Q - S*S
VarNum(s) == Len(s) * SumSeq(Squares(s)) - SumSeq(s) * SumSeq(s)

\* np.std / np.mean of an empty sample is nan
npIsNaN(s) == Len(s) = 0

\* stats.t.ppf(0.95, df) squared, in ten-thousandths; nan for df < 1
tppfIsNaN(df) == df < 1

tppfSq(df) ==
    CASE df = 1 -> 398635
      [] df = 2 -> 85263
      [] df = 3 -> 55383
      [] df = 4 -> 45448
      [] df = 5 -> 40604
      [] df = 6 -> 37759
      [] df = 7 -> 35894
      [] df = 8 -> 34579
      [] df = 9 -> 33603

\* (np.mean(s) - 5) / (np.std(s) / len(s) ** 0.5) <= -c, c^2 = critSq/CritDen
TStatUpper(s, critSq) ==
    LET S == SumSeq(s)
        m == Len(s)
    IN  /\ S > Mu0 * m
        /\ m * (S - Mu0 * m) * (S - Mu0 * m) * CritDen >= critSq * VarNum(s)

TStatLower(s, critSq) ==
    LET S == SumSeq(s)
        m == Len(s)
    IN  /\ S < Mu0 * m
        /\ m * (Mu0 * m - S) * (Mu0 * m - S) * CritDen >= critSq * VarNum(s)

(* ------------------------------------------------ itertools.combinations *)
\* tuples of r positions out of lo..N, in lexicographic order
RECURSIVE CombsFrom(_, _, _)
CombsFrom(lo, N, r) ==
    IF r = 0 THEN << <<>> >>
    ELSE IF lo > N THEN <<>>
    ELSE LET with == CombsFrom(lo + 1, N, r - 1)
         IN  [k \in 1..Len(with) |-> <<lo>> \o with[k]] \o CombsFrom(lo + 1, N, r)

\* itertools.combinations_with_replacement: a position may repeat
RECURSIVE CombsFromWR(_, _, _)
CombsFromWR(lo, N, r) ==
    IF r = 0 THEN << <<>> >>
    ELSE IF lo > N THEN <<>>
    ELSE LET with == CombsFromWR(lo, N, r - 1)
         IN  [k \in 1..Len(with) |-> <<lo>> \o with[k]] \o CombsFromWR(lo + 1, N, r)

CombinationsWR(N, r) == CombsFromWR(1, N, r)

\* list(itertools.combinations(obs, n)) for len(obs) = N and n = r >= 0,
\* each tuple held as the positions its values come from
Combinations(N, r) == CombsFrom(1, N, r)

Sample(o, c) == [k \in 1..Len(c) |-> o[c[k]]]

(* ---------------------------------------------------- the body of the loop *)
\* np.std(sample, ddof=1) != 0: nan for a single value
StdNonZeroDdof1(s) == Len(s) <= 1 \/ VarNum(s) # 0

\* sample[0] != sample[-1] in place of the standard deviation
StdNonZeroEnds(s) == npIsNaN(s) \/ s[1] # s[Len(s)]

\* np.std(sample) != 0 (nan != 0 is True)
StdNonZero(s) == npIsNaN(s) \/ VarNum(s) # 0

\* a lower-tailed rule for the zero-variance branch
DegenerateLower(s) == s[1] < Mu0

\* the else branch: if sample[0] == 5: pass / else: ctr += 1
DegenerateCounts(s) == s[1] # Mu0

\* ... <= -stats.t.ppf(0.95, df=n-1); a comparison with nan is False
Rejects(s) ==
    /\ ~npIsNaN(s)
    /\ ~tppfIsNaN(Len(s) - 1)
    /\ TStatLower(s, tppfSq(Len(s) - 1))

\* the loop body without the np.std(sample) != 0 test
ExamineNoGuard(s) == [divided |-> TRUE, counted |-> Rejects(s)]

\* what one iteration does with a sample: whether it evaluates the
\* t-statistic (and so divides by np.std) and whether it counts a rejection
Examine(s) ==
    IF StdNonZero(s)
    THEN [divided |-> TRUE, counted |-> Rejects(s)]
    ELSE [divided |-> FALSE, counted |-> DegenerateCounts(s)]

\* an increment that also runs outside the branches
BumpTwice(c, counted) == IF counted THEN c + 2 ELSE c + 1

\* ctr += 1 on the counting branches
Bump(c, counted) == IF counted THEN c + 1 ELSE c

(* ------------------------------------------------ the hand-written loops *)
\* the body of the n=2 and n=3 loops, with the literal critical value
HandCounts(s, critSq) ==
    IF VarNum(s) # 0 THEN TStatLower(s, critSq) ELSE s[1] # 5 * Unit

HandPairs ==
    {p \in (1..Len(data)) \X (1..Len(data)) : p[1] < p[2]}

HandTriples ==
    {p \in (1..Len(data)) \X (1..Len(data)) \X (1..Len(data)) :
        p[1] < p[2] /\ p[2] < p[3]}

\* 6.31^2 = 39.8161 and 2.92^2 = 8.5264
HandCtr2 == Cardinality({p \in HandPairs : HandCounts(Sample(data, p), 398161)})

HandCtr3 == Cardinality({p \in HandTriples : HandCounts(Sample(data, p), 85264)})

(* ------------------------------------------------------------ the machine *)
Populations == {data} \cup UNION {[1..m -> Values] : m \in 0..MaxN}

Init ==
    /\ pc = "idle"
    /\ obs = <<>>
    /\ n = 0
    /\ combs = <<>>
    /\ i = 0
    /\ ctr = 0
    /\ trace = <<>>
    /\ ret = None
    /\ err = ""
    /\ power = None

\* the n=2 cell: ctr = 0; for i, for j: ...; power = ctr / 45
\* (ctr and power are the notebook's globals, not stat_power's locals)
Cell7 ==
    /\ pc = "idle"
    /\ power' = <<HandCtr2, 45>>
    /\ UNCHANGED <<pc, obs, n, combs, i, ctr, trace, ret, err>>

\* the n=3 cell: power = ctr / 120
Cell9 ==
    /\ pc = "idle"
    /\ power' = <<HandCtr3, 120>>
    /\ UNCHANGED <<pc, obs, n, combs, i, ctr, trace, ret, err>>

\* stat_power(k, o): ctr = 0; combs = list(itertools.combinations(obs, n))
\* itertools.combinations raises ValueError for a negative r
Call(o, k) ==
    /\ pc = "idle"
    /\ obs' = o
    /\ n' = k
    /\ ctr' = 0
    /\ i' = 0
    /\ trace' = <<>>
    /\ ret' = None
    /\ IF k < 0
       THEN /\ pc' = "raised"
            /\ err' = "ValueError"
            /\ combs' = <<>>
       ELSE /\ pc' = "loop"
            /\ err' = ""
            /\ combs' = Combinations(Len(o), k)
    /\ UNCHANGED power

\* one iteration of: for sample in combs
LoopStep ==
    /\ pc = "loop"
    /\ i < Len(combs)
    /\ LET c == combs[i + 1]
           r == Examine(Sample(obs, c))
       IN  /\ trace' = Append(trace, [comb |-> c, divided |-> r.divided,
                                      counted |-> r.counted])
           /\ ctr' = Bump(ctr, r.counted)
    /\ i' = i + 1
    /\ UNCHANGED <<pc, obs, n, combs, ret, err, power>>

\* power = ctr / len(combs); return power (power is local to the call)
Return ==
    /\ pc = "loop"
    /\ i = Len(combs)
    /\ IF Len(combs) = 0
       THEN /\ pc' = "raised"
            /\ err' = "ZeroDivisionError"
            /\ ret' = None
       ELSE /\ pc' = "returned"
            /\ err' = ""
            /\ ret' = <<ctr, Len(combs)>>
    /\ UNCHANGED <<obs, n, combs, i, ctr, trace, power>>

\* the call is over; the notebook is ready for the next cell
NextCell ==
    /\ pc \in {"returned", "raised"}
    /\ pc' = "idle"
    /\ obs' = <<>>
    /\ n' = 0
    /\ combs' = <<>>
    /\ i' = 0
    /\ ctr' = 0
    /\ trace' = <<>>
    /\ ret' = None
    /\ err' = ""
    /\ UNCHANGED power

Next ==
    \/ Cell7
    \/ Cell9
    \/ \E o \in Populations : \E k \in (-1)..(Len(o) + 1) : Call(o, k)
    \/ LoopStep
    \/ Return
    \/ NextCell

Spec == Init /\ [][Next]_vars

(* ------------------------------------------------------------- properties *)
\* 1 <= n <= N for the call in progress
Valid == 1 <= n /\ n <= Len(obs)

Running == pc \in {"loop", "returned"}

RECURSIVE Binomial(_, _)
Binomial(N, k) ==
    IF k < 0 \/ k > N THEN 0
    ELSE IF k = 0 \/ k = N THEN 1
    ELSE Binomial(N - 1, k - 1) + Binomial(N - 1, k)

AllEqual(s) == \A a, b \in 1..Len(s) : s[a] = s[b]

Examined(k) == Sample(obs, trace[k].comb)

NumCounted == Cardinality({k \in 1..Len(trace) : trace[k].counted})

\* C1: for 1 <= n <= N the list of subsamples has exactly C(N, n) entries,
\* the loop examines them in turn, and on return every n-element set of
\* distinct positions has been examined exactly once and the divisor of the
\* returned power is C(N, n).
C1_EveryCombinationOnce ==
    (Running /\ Valid) =>
        /\ Len(combs) = Binomial(Len(obs), n)
        /\ Len(trace) = i
        /\ i <= Len(combs)
        /\ (i > 0 => trace[i].comb = combs[i])
        /\ pc = "returned" =>
            /\ i = Binomial(Len(obs), n)
            /\ ret[2] = Binomial(Len(obs), n)
            /\ \A k \in 1..i :
                 /\ Range(trace[k].comb) \subseteq 1..Len(obs)
                 /\ Cardinality(Range(trace[k].comb)) = n
            /\ \A P \in SUBSET (1..Len(obs)) :
                 Cardinality(P) = n =>
                   Cardinality({k \in 1..i : Range(trace[k].comb) = P}) = 1

\* a finished call on the reference data in which two different sets of
\* positions holding the same values were examined as separate subsamples
C1_Witness ==
    /\ pc = "returned"
    /\ obs = data
    /\ n = 3
    /\ i = 120
    /\ \E j, k \in 1..i :
         /\ j # k
         /\ Examined(j) = Examined(k)

\* C2: during the enumeration 0 <= ctr <= number of subsamples examined,
\* and the returned power ctr / len(combs) lies in [0, 1].
C2_PowerInUnitInterval ==
    (Running /\ Valid) =>
        /\ 0 <= ctr
        /\ ctr <= i
        /\ i <= Len(combs)
        /\ pc = "returned" =>
            /\ ret = <<ctr, Len(combs)>>
            /\ ret[2] > 0
            /\ 0 <= ret[1]
            /\ ret[1] <= ret[2]

C2_Witness ==
    /\ pc = "returned"
    /\ Valid
    /\ n >= 2
    /\ 0 < ret[1]
    /\ ret[1] < ret[2]

C5_NoDivisionByZero ==
    Valid =>
        /\ pc # "raised"
        /\ err = ""
        /\ \A k \in 1..Len(trace) :
             trace[k].divided => ~AllEqual(Examined(k))
        /\ Len(trace) = i
        /\ ctr = NumCounted

C5_Witness ==
    /\ pc = "returned"
    /\ Valid
    /\ \E j, k \in 1..Len(trace) :
         /\ ~trace[j].divided
         /\ AllEqual(Examined(j))
         /\ trace[k].divided

\* C6: with n = 1 no subsample evaluates the t-statistic, and on the
\* reference data the call returns 8/10.
C6_SingleElementSamples ==
    /\ (Running /\ Valid /\ n = 1) =>
          \A k \in 1..Len(trace) : ~trace[k].divided
    /\ (pc = "returned" /\ obs = data /\ n = 1) =>
          /\ ret = <<8, 10>>
          /\ NumCounted = 8
          /\ \A k \in 1..Len(trace) : trace[k].counted <=> Examined(k) # <<Mu0>>

C6_Witness ==
    /\ pc = "returned"
    /\ obs = data
    /\ n = 1
    /\ Len(trace) = 10
    /\ ret[1] * 10 = 8 * ret[2]

\* C7: on the reference data stat_power counts 28 of 45 for n = 2 and 56 of
\* 120 for n = 3, and the hand-written loops give the same counts.
C7_ReferenceCounts ==
    /\ (pc = "returned" /\ obs = data /\ n = 2) => ret = <<28, 45>>
    /\ (pc = "returned" /\ obs = data /\ n = 3) => ret = <<56, 120>>
    /\ power # None => power \in {<<28, 45>>, <<56, 120>>}
    /\ (pc = "returned" /\ obs = data /\ n = 2 /\ power # None /\ power[2] = 45) =>
          power = ret
    /\ (pc = "returned" /\ obs = data /\ n = 3 /\ power # None /\ power[2] = 120) =>
          power = ret

\* the n=3 loop has run, and stat_power(3) on the same data has returned
C7_Witness ==
    /\ pc = "returned"
    /\ obs = data
    /\ n = 3
    /\ power = <<56, 120>>
    /\ ret = power

\* the rejection count of stat_power(k, o), summed over the combinations
CountOver(o, k) ==
    LET cs == Combinations(Len(o), k)
    IN  Cardinality({j \in 1..Len(cs) : Examine(Sample(o, cs[j])).counted})

Reorder(o, f) == [k \in 1..Len(o) |-> o[f[k]]]

\* every reordering of a drawn population; the reversal and the rotations
\* of the reference data
Reorderings(o) ==
    IF Len(o) <= MaxN + 1
    THEN Permutations(1..Len(o))
    ELSE {[k \in 1..Len(o) |-> Len(o) + 1 - k]}
         \cup {[k \in 1..Len(o) |-> ((k + d - 1) % Len(o)) + 1] : d \in 1..(Len(o) - 1)}

\* C9: the rejection count and the power returned for a population are the
\* ones every reordering of the population gives.
C9_OrderIrrelevant ==
    (pc = "returned" /\ Valid) =>
        \A f \in Reorderings(obs) :
            /\ CountOver(Reorder(obs, f), n) = ctr
            /\ ret = <<CountOver(Reorder(obs, f), n), Len(Combinations(Len(obs), n))>>

\* a population that is not constant, with a zero-variance subsample and
\* a subsample that went through the t-statistic
C9_Witness ==
    /\ pc = "returned"
    /\ Valid
    /\ ~AllEqual(obs)
    /\ Len(obs) = MaxN
    /\ \E j, k \in 1..Len(trace) :
         /\ ~trace[j].divided
         /\ trace[j].counted
         /\ trace[k].divided
         /\ trace[k].counted

\* C3: a call with n < 1 or n > N returns no power value and ends in the
\* invalid-argument error (ValueError), in no other fault.
C3_InvalidArgument ==
    (pc # "idle" /\ ~Valid) =>
        /\ pc # "returned"
        /\ pc = "raised" => err = "ValueError"

\* C8: on the reference data the power grows strictly with the sample size
\* over the range 1..3: the power returned for n is greater than the one
\* stat_power gives for n - 1.
C8_MonotoneOnReference ==
    (pc = "returned" /\ obs = data /\ n \in 2..3) =>
        /\ CountOver(data, n - 1) * ret[2]
              < ret[1] * Len(Combinations(Len(data), n - 1))
        /\ (n = 3 /\ power # None /\ power[2] = 45) =>
              power[1] * ret[2] < ret[1] * power[2]

\* C10: no subsample whose mean is greater than or equal to mu0 is counted
\* as a rejection.
C10_LowerTailedOnly ==
    (Running /\ Valid) =>
        \A k \in 1..Len(trace) :
            SumSeq(Examined(k)) >= Mu0 * n => ~trace[k].counted

====
